---- MODULE Spec2Model ----
(***************************************************************************)
(* The document classification pipeline of the repository:                 *)
(*   ContentSafetyValidator.validate  (src/src/classification/             *)
(*                                     content_safety.py)                  *)
(*   GeminiClassifier.classify / _classify_single (classifier.py)          *)
(*   EnhancedGeminiClassifier.classify (enhanced_classifier.py)            *)
(*   AccuracyTracker (accuracy_tracker.py)                                 *)
(*                                                                         *)
(* Numbers.  Confidences, safety scores and precisions are Python floats   *)
(* with at most four decimals; they are modelled as integers counting      *)
(* 1/10000 (0.95 is 9500).  The HITL auto-approval score is a sum of       *)
(* multiples of 0.05 and is modelled in 1/100 (0.75 is 75).                *)
(*                                                                         *)
(* Python values.  A dict is a function whose DOMAIN is its key set, so a  *)
(* missing key is a key outside the DOMAIN and d[k] on it is a KeyError.   *)
(* None is the string "None"; a value that may be True, False or None is   *)
(* one of the strings "True", "False", "None".                             *)
(***************************************************************************)
EXTENDS Integers, Sequences, FiniteSets, TLC

VARIABLES
    config,         \* Config: the settings read from the environment
    metrics,        \* AccuracyTracker.metrics
    metrics_file,   \* the contents of data/accuracy_metrics.json
    pc,             \* where the running EnhancedGeminiClassifier.classify call is
    doc,            \* document_data and ground_truth of the running call
    safety_result,  \* the result dict ContentSafetyValidator.validate builds
    pass,           \* validation_pass of the cascade pass in progress (0: none)
    step_results,   \* keys of the `results` dict of the pass in progress
    response,       \* how the last oracle call ended: "raise", "text" or "json"
    check_result,   \* the dict the last _check_* / layer call returned
    result1,        \* result of pass 1 (then the dict classify annotates)
    result2,        \* result of pass 2
    result,         \* what EnhancedGeminiClassifier.classify returned
    oracle_calls,   \* the oracle calls of the running classify call, in order
    metrics_plain,  \* the tracker's nested containers are plain dicts (loaded
                    \* from the file), not the defaultdicts of a fresh tracker
    call,           \* the last call made on the tracker, the calibrator, the
                    \* HITL decision or the HITL submission handler
    threads,        \* the threads inside AccuracyTracker.record_prediction
    audit_log,      \* AuditLogger: the classifications and hitl_reviews tables
    job             \* the BatchJob of the batch processor and its workers

\* the variables of one EnhancedGeminiClassifier.classify call
classify_vars == <<pc, doc, safety_result, pass, step_results, response,
                   check_result, result1, result2, result, oracle_calls>>

\* the variables the classify call never touches
other_vars == <<metrics_plain, call, threads, audit_log, job>>

vars == <<config, metrics, metrics_file, pc, doc, safety_result, pass, step_results,
          response, check_result, result1, result2, result, oracle_calls,
          metrics_plain, call, threads, audit_log, job>>

----------------------------------------------------------------------------
(* Python values *)

None == "None"
NoDict == <<>>      \* the empty dict {}; also "no value yet" for a dict variable

PyBool(b) == IF b THEN "True" ELSE "False"
Truthy(v) == v = "True"

IsNoDict(d) == DOMAIN d = {}
HasKeys(d, ks) == ks \subseteq DOMAIN d
WithoutKey(d, k) == [x \in DOMAIN d \ {k} |-> d[x]]
Put(d, k, v) == [x \in DOMAIN d \cup {k} |-> IF x = k THEN v ELSE d[x]]
GetOr(d, k, default) == IF k \in DOMAIN d THEN d[k] ELSE default

Min(a, b) == IF a <= b THEN a ELSE b
Max(a, b) == IF a >= b THEN a ELSE b

(* The integer nearest to n / d, for n >= 0 and d > 0: what round(x, 4)    *)
(* gives in units of 1/10000.  Python rounds the double it holds, which is *)
(* never exactly a decimal tie; for the ties the values of this model      *)
(* reach (0.95 * (0.7 + 0.3 * 0.5) * 1.1 = 0.88825, and 0.9 with consensus *)
(* at precision 0.95 and 0.85) the double lies above the tie and round()   *)
(* rounds up, so a tie goes up here.                                       *)
RoundDiv(n, d) == (2 * n + d) \div (2 * d)

----------------------------------------------------------------------------
(* Config *)

CATEGORIES == {"PUBLIC", "SENSITIVE", "CONFIDENTIAL", "UNSAFE"}
CONFIDENCE_THRESHOLD == 9000

----------------------------------------------------------------------------
(* Bounds of the model *)

MaxGroundTruth == 1     \* ground-truthed predictions the tracker records
MaxRecorded == 2        \* calls the tracker records when called on its own
MaxReviews == 2         \* rows of the hitl_reviews table

DocumentIds == {"doc"}
ConfValues == {8500, 9000, 15000}      \* confidences the oracle reports
ScoreValues == {8000, 10000}                 \* safety scores the oracle reports
GroundTruths == {None, "UNSAFE", "PUBLIC"}   \* ground_truth arguments
PatternMatches == {{}, {"violence"}}         \* categories the regex screens match

----------------------------------------------------------------------------
(* AccuracyTracker (accuracy_tracker.py) *)

\* _load_metrics with no metrics file: empty defaultdicts
EmptyMetrics ==
    [total_predictions |-> 0,
     total_ground_truth |-> 0,
     confusion_matrix |-> NoDict,
     confidence_bins |-> NoDict,
     category_stats |-> NoDict,
     hitl_corrections |-> <<>>]

\* the default_factory of category_stats
ZeroStats ==
    [true_positives |-> 0, false_positives |-> 0, false_negatives |-> 0,
     precision |-> 0, recall |-> 0, f1_score |-> 0]

\* a variant of _recalculate_metrics that leaves the stored values as they are
RecalculateStatsSkipped(stats) == stats

\* the body of the loop of _recalculate_metrics, for one category's stats
RecalculateStats(stats) ==
    LET tp == stats.true_positives
        fp == stats.false_positives
        fn == stats.false_negatives
    IN  [stats EXCEPT
            !.precision = IF tp + fp > 0 THEN RoundDiv(tp * 10000, tp + fp) ELSE 0,
            !.recall = IF tp + fn > 0 THEN RoundDiv(tp * 10000, tp + fn) ELSE 0,
            \* 2pr/(p+r) of the unrounded p and r is 2tp/(2tp+fp+fn); p+r > 0 iff tp > 0
            !.f1_score = IF tp > 0 THEN RoundDiv(2 * tp * 10000, 2 * tp + fp + fn)
                                   ELSE 0]

\* a variant that counts a wrong prediction only against the truth's category
CountPredictionNoFalsePositive(stats, category, predicted, ground_truth) ==
    IF predicted = category /\ ground_truth = category
        THEN [stats EXCEPT !.true_positives = @ + 1]
    ELSE IF predicted # category /\ ground_truth = category
        THEN [stats EXCEPT !.false_negatives = @ + 1]
    ELSE stats

\* the TP / FP / FN branch of record_prediction for one category
CountPrediction(stats, category, predicted, ground_truth) ==
    IF predicted = category /\ ground_truth = category
        THEN [stats EXCEPT !.true_positives = @ + 1]
    ELSE IF predicted = category /\ ground_truth # category
        THEN [stats EXCEPT !.false_positives = @ + 1]
    ELSE IF predicted # category /\ ground_truth = category
        THEN [stats EXCEPT !.false_negatives = @ + 1]
    ELSE stats

\* int(confidence * 10): the key str(int(confidence * 10) / 10) in tenths
ConfidenceBin(confidence) ==
    IF confidence >= 0 THEN confidence \div 1000 ELSE 0 - ((0 - confidence) \div 1000)

\* a variant of record_prediction without the `if ground_truth:` test
record_prediction_unguarded(m, predicted, ground_truth, confidence, document_id) ==
    LET bin == ConfidenceBin(confidence)
        entry == [predicted |-> predicted,
                  ground_truth |-> ground_truth,
                  correct |-> IF ground_truth # None
                                 THEN PyBool(predicted = ground_truth) ELSE None,
                  document_id |-> document_id]
        row == GetOr(m.confusion_matrix, ground_truth, NoDict)
    IN  [m EXCEPT
            !.total_predictions = @ + 1,
            !.confidence_bins = Put(@, bin, Append(GetOr(@, bin, <<>>), entry)),
            !.total_ground_truth = @ + 1,
            !.confusion_matrix =
                Put(@, ground_truth,
                    Put(row, predicted, GetOr(row, predicted, 0) + 1)),
            !.category_stats =
                [c \in CATEGORIES |->
                    RecalculateStats(
                        CountPrediction(GetOr(m.category_stats, c, ZeroStats),
                                        c, predicted, ground_truth))]]

\* record_prediction: the metrics after the call.  The defaultdicts create a
\* missing bin, confusion-matrix row or cell and category entry on access;
\* _recalculate_metrics touches category_stats of every category.
record_prediction(m, predicted, ground_truth, confidence, document_id) ==
    LET bin == ConfidenceBin(confidence)
        entry == [predicted |-> predicted,
                  ground_truth |-> ground_truth,
                  correct |-> IF ground_truth # None
                                 THEN PyBool(predicted = ground_truth) ELSE None,
                  document_id |-> document_id]
        binned == [m EXCEPT
                      !.total_predictions = @ + 1,
                      !.confidence_bins =
                          Put(@, bin, Append(GetOr(@, bin, <<>>), entry))]
        row == GetOr(m.confusion_matrix, ground_truth, NoDict)
    IN  IF ground_truth = None THEN binned
        ELSE [binned EXCEPT
                 !.total_ground_truth = @ + 1,
                 !.confusion_matrix =
                     Put(@, ground_truth,
                         Put(row, predicted, GetOr(row, predicted, 0) + 1)),
                 !.category_stats =
                     [c \in CATEGORIES |->
                         RecalculateStats(
                             CountPrediction(GetOr(m.category_stats, c, ZeroStats),
                                             c, predicted, ground_truth))]]

\* a variant of record_hitl_correction that counts every correction as a
\* correct prediction of the corrected category
record_hitl_correction_as_hit(m, document_id, original, corrected, confidence) ==
    record_prediction(
        [m EXCEPT !.hitl_corrections =
                      Append(@, [document_id |-> document_id,
                                 original |-> original,
                                 corrected |-> corrected,
                                 confidence |-> confidence])],
        corrected, corrected, confidence, document_id)

\* a variant of record_hitl_correction that keeps only the latest correction
\* in the log
record_hitl_correction_latest_only(m, document_id, original, corrected, confidence) ==
    record_prediction(
        [m EXCEPT !.hitl_corrections =
                      <<[document_id |-> document_id,
                         original |-> original,
                         corrected |-> corrected,
                         confidence |-> confidence]>>],
        original, corrected, confidence, document_id)

\* record_hitl_correction: the metrics after the call (the entry's timestamp
\* is left out)
record_hitl_correction(m, document_id, original, corrected, confidence) ==
    record_prediction(
        [m EXCEPT !.hitl_corrections =
                      Append(@, [document_id |-> document_id,
                                 original |-> original,
                                 corrected |-> corrected,
                                 confidence |-> confidence])],
        original, corrected, confidence, document_id)

\* _save_metrics: the file after json.dump of the metrics
SavedMetrics(m) == [exists |-> TRUE, content |-> m]
NoMetricsFile == [exists |-> FALSE]

\* no call made yet; no thread inside the tracker
NoCall == [op |-> None]
NoThreads == <<>>

----------------------------------------------------------------------------
(* AuditLogger (audit_logger.py) and BatchJob (batch_processor.py) at rest *)

\* _init_database: empty classifications and hitl_reviews tables
EmptyAuditLog == [classifications |-> NoDict, hitl_reviews |-> <<>>]

\* BatchProcessor.jobs is empty
NoJob == [status |-> None]

----------------------------------------------------------------------------
(* The oracle (model.generate_content) as the callers see it: the call      *)
(* raises, or returns text json.loads rejects, or returns a JSON object.    *)

OracleFailures == {[kind |-> "raise"], [kind |-> "text"]}
JsonResponses(bodies) == {[kind |-> "json", body |-> b] : b \in bodies}

\* a well-formed object, and the same with one key left out, and {}
Malformed(d) == {WithoutKey(d, k) : k \in DOMAIN d} \cup {NoDict}

----------------------------------------------------------------------------
(* ContentSafetyValidator (content_safety.py) *)

\* _pattern_based_check: `matched` are the categories whose regexes match
pattern_based_check(matched) ==
    [flagged |-> matched # {},
     categories |-> matched,
     violations |-> {"pattern: " \o c : c \in matched}]

AiSafetyBody(is_safe, safety_score) ==
    [is_safe |-> is_safe,
     safety_score |-> safety_score,
     violations |-> IF is_safe THEN {} ELSE {"ai violation"},
     categories |-> IF is_safe THEN {} ELSE {"hate_speech"}]

\* every answer to the deep check
AiSafetyResponses ==
    OracleFailures \cup
    JsonResponses({AiSafetyBody(b, s) : b \in BOOLEAN, s \in ScoreValues}
                  \cup Malformed(AiSafetyBody(TRUE, 8000))
                  \cup Malformed(AiSafetyBody(FALSE, 8000)))

\* the answers drawn when the whole pipeline is explored: one safe verdict
PipelineAiSafetyResponses ==
    OracleFailures \cup
    JsonResponses({AiSafetyBody(TRUE, 10000), AiSafetyBody(FALSE, 8000), NoDict})

\* _ai_safety_check: the dict it returns for an oracle response
ai_safety_check(answer) ==
    IF answer.kind = "json" THEN answer.body
    ELSE [is_safe |-> FALSE,
          safety_score |-> 5000,
          violations |-> {"Safety check failed"},
          categories |-> {"check_error"}]

ChildSafetyBody(is_child_safe) ==
    [is_child_safe |-> is_child_safe, reason |-> "oracle reason"]

\* every answer to the child-safety check
ChildSafetyResponses ==
    OracleFailures \cup
    JsonResponses({ChildSafetyBody(b) : b \in BOOLEAN}
                  \cup Malformed(ChildSafetyBody(TRUE))
                  \cup Malformed(ChildSafetyBody(FALSE)))

PipelineChildSafetyResponses ==
    OracleFailures \cup
    JsonResponses({ChildSafetyBody(TRUE), ChildSafetyBody(FALSE), NoDict})

\* _child_safety_check: the dict it returns for an oracle response
child_safety_check(answer) ==
    IF answer.kind = "json" THEN answer.body
    ELSE [is_child_safe |-> FALSE, reason |-> "Safety check error"]

\* validate, lines 75-90: the result dict after the pattern layer
ValidateLayer1(pattern_results) ==
    [is_safe |-> ~pattern_results.flagged,
     safety_score |-> 10000,
     violations |-> IF pattern_results.flagged THEN pattern_results.violations ELSE {},
     categories_flagged |->
         IF pattern_results.flagged THEN pattern_results.categories ELSE {},
     child_safe |-> TRUE,
     detail |-> NoDict]

\* validate, lines 93-98: the keys read of ai_results, in the order read
AiKeysRead(ai_results) ==
    IF "is_safe" \notin DOMAIN ai_results THEN {"is_safe"}
    ELSE IF ai_results.is_safe THEN {"is_safe"}
    ELSE {"is_safe", "violations", "categories", "safety_score"}

ValidateLayer2(res, ai_results) ==
    IF ai_results.is_safe THEN res
    ELSE [res EXCEPT
             !.is_safe = FALSE,
             !.violations = @ \cup ai_results.violations,
             !.categories_flagged = @ \cup ai_results.categories,
             !.safety_score = Min(@, ai_results.safety_score)]

\* validate, lines 101-105
ChildKeysRead(child_safety) ==
    IF "is_child_safe" \notin DOMAIN child_safety THEN {"is_child_safe"}
    ELSE IF child_safety.is_child_safe THEN {"is_child_safe"}
    ELSE {"is_child_safe", "reason"}

\* a variant that assigns the child-safety verdict to is_safe instead of
\* only clearing it
ValidateLayer3Overwrite(res, child_safety) ==
    IF child_safety.is_child_safe
        THEN [res EXCEPT !.child_safe = TRUE, !.is_safe = TRUE]
        ELSE [res EXCEPT
                 !.child_safe = FALSE,
                 !.is_safe = FALSE,
                 !.violations = @ \cup {child_safety.reason}]

ValidateLayer3(res, child_safety) ==
    IF child_safety.is_child_safe
        THEN [res EXCEPT !.child_safe = TRUE]
        ELSE [res EXCEPT
                 !.child_safe = FALSE,
                 !.is_safe = FALSE,
                 !.violations = @ \cup {child_safety.reason}]

\* validate, lines 115-119
ValidateDetail(res, pattern_results, ai_results, child_safety) ==
    [res EXCEPT !.detail = [pattern_check |-> pattern_results,
                            ai_check |-> ai_results,
                            child_safety_check |-> child_safety]]

----------------------------------------------------------------------------
(* GeminiClassifier (classifier.py) *)

\* the checks of a cascade pass, named by their key in `results`
Checks == <<"safety_check", "confidential_check", "sensitive_check">>

FlagKey(check) ==
    CASE check = "safety_check" -> "is_unsafe"
      [] check = "confidential_check" -> "is_confidential"
      [] check = "sensitive_check" -> "is_sensitive"

CategoryOf(check) ==
    CASE check = "safety_check" -> "UNSAFE"
      [] check = "confidential_check" -> "CONFIDENTIAL"
      [] check = "sensitive_check" -> "SENSITIVE"

DefaultCitation(check) ==
    CASE check = "safety_check" -> "Safety violation detected"
      [] check = "confidential_check" -> "Confidential content detected"
      [] check = "sensitive_check" -> "Sensitive content detected"

\* the JSON object the prompt of a check asks for
CheckBody(check, flag, confidence) ==
    (FlagKey(check) :> flag) @@
    [confidence |-> confidence,
     reasoning |-> "oracle reasoning",
     citation |-> "oracle citation"]

\* The answers to a check: a flag with each confidence, no flag (whose
\* confidence is never read), the flagging object with one key left out,
\* the non-flagging object without its confidence, and {}.
CheckResponses(check) ==
    OracleFailures \cup
    JsonResponses({CheckBody(check, TRUE, c) : c \in ConfValues}
                  \cup {CheckBody(check, FALSE, 9000),
                        WithoutKey(CheckBody(check, FALSE, 9000), "confidence")}
                  \cup Malformed(CheckBody(check, TRUE, 9000)))

\* _check_safety: the dict it returns for an oracle response
check_safety(answer) ==
    IF answer.kind = "json" THEN answer.body
    ELSE [is_unsafe |-> FALSE, confidence |-> 5000,
          reasoning |-> "Error", citation |-> ""]

\* _check_confidential
check_confidential(answer) ==
    IF answer.kind = "json" THEN answer.body
    ELSE [is_confidential |-> FALSE, confidence |-> 5000,
          reasoning |-> "Error", citation |-> "", pii_found |-> {}]

\* _check_sensitive
check_sensitive(answer) ==
    IF answer.kind = "json" THEN answer.body
    ELSE [is_sensitive |-> FALSE, confidence |-> 5000,
          reasoning |-> "Error", citation |-> "", pii_found |-> {}]

RunCheck(check, answer) ==
    CASE check = "safety_check" -> check_safety(answer)
      [] check = "confidential_check" -> check_confidential(answer)
      [] check = "sensitive_check" -> check_sensitive(answer)

PublicReasoning ==
    "Document contains no unsafe, confidential, or sensitive information. Suitable for public distribution."

\* _classify_single, lines 143-152 / 158-167 / 173-182: the dict returned when
\* the check flags.  `keys` are the keys of `results` (the checks run).
FlaggedResult(check, r, document_id, validation_pass, keys) ==
    [document_id |-> document_id,
     final_category |-> CategoryOf(check),
     confidence_score |-> r.confidence,
     reasoning_summary |-> r.reasoning,
     citation_snippet |-> GetOr(r, "citation", DefaultCitation(check)),
     step_results |-> keys,
     validation_pass |-> validation_pass]

\* a variant whose fallback confidence is the 0.5 of a degraded check
PublicResultDegraded(document_id, validation_pass, keys) ==
    [document_id |-> document_id,
     final_category |-> "PUBLIC",
     confidence_score |-> 5000,
     reasoning_summary |-> PublicReasoning,
     citation_snippet |-> "No restricted content found",
     step_results |-> keys,
     validation_pass |-> validation_pass]

\* _classify_single, lines 184-193
PublicResult(document_id, validation_pass, keys) ==
    [document_id |-> document_id,
     final_category |-> "PUBLIC",
     confidence_score |-> 9500,
     reasoning_summary |-> PublicReasoning,
     citation_snippet |-> "No restricted content found",
     step_results |-> keys,
     validation_pass |-> validation_pass]

\* a variant in which the unsafe flag does not return: the cascade goes on
\* and a later flag decides the category
CascadeStepNoReturn(check, r, document_id, validation_pass, keys) ==
    IF FlagKey(check) \notin DOMAIN r THEN [kind |-> "raise"]
    ELSE IF r[FlagKey(check)] /\ check # "safety_check" THEN
        IF HasKeys(r, {"confidence", "reasoning"})
            THEN [kind |-> "return",
                  result |-> FlaggedResult(check, r, document_id, validation_pass, keys)]
            ELSE [kind |-> "raise"]
    ELSE IF check = "sensitive_check"
        THEN [kind |-> "return",
              result |-> PublicResult(document_id, validation_pass, keys)]
    ELSE [kind |-> "next"]

\* One step of the cascade of _classify_single on the dict `r` a check
\* returned: a KeyError ("raise"), the pass result ("return"), or on to the
\* next check ("next").
CascadeStep(check, r, document_id, validation_pass, keys) ==
    IF FlagKey(check) \notin DOMAIN r THEN [kind |-> "raise"]
    ELSE IF r[FlagKey(check)] THEN
        IF HasKeys(r, {"confidence", "reasoning"})
            THEN [kind |-> "return",
                  result |-> FlaggedResult(check, r, document_id, validation_pass, keys)]
            ELSE [kind |-> "raise"]
    ELSE IF check = "sensitive_check"
        THEN [kind |-> "return",
              result |-> PublicResult(document_id, validation_pass, keys)]
    ELSE [kind |-> "next"]

\* a variant that wants both confidences strictly above the threshold
ConsensusStrict(r1, r2) ==
    /\ r1.final_category = r2.final_category
    /\ r1.confidence_score > CONFIDENCE_THRESHOLD
    /\ r2.confidence_score > CONFIDENCE_THRESHOLD

\* classify, lines 92-94
ConsensusReached(r1, r2) ==
    /\ r1.final_category = r2.final_category
    /\ r1.confidence_score >= CONFIDENCE_THRESHOLD
    /\ r2.confidence_score >= CONFIDENCE_THRESHOLD

\* classify, lines 91-112: result1 as annotated and returned
DualValidation(r1, r2) ==
    IF ConsensusReached(r1, r2)
        THEN r1 @@ [hitl_status |-> "AUTO_APPROVED",
                    validation_consensus |-> "True",
                    dual_validation_results |->
                        [pass1 |-> r1.confidence_score, pass2 |-> r2.confidence_score]]
        ELSE r1 @@ [hitl_status |-> "REQUIRES_REVIEW",
                    validation_consensus |-> "False",
                    dual_validation_results |->
                        [pass1 |-> [category |-> r1.final_category,
                                    confidence |-> r1.confidence_score],
                         pass2 |-> [category |-> r2.final_category,
                                    confidence |-> r2.confidence_score]]]

\* a variant of the single-pass branch that sends a confidence at the
\* threshold to review
SingleValidationStrict(r) ==
    r @@ [hitl_status |-> IF r.confidence_score <= CONFIDENCE_THRESHOLD
                             THEN "REQUIRES_REVIEW" ELSE "AUTO_APPROVED",
          validation_consensus |-> None]

\* classify, lines 114-117
SingleValidation(r) ==
    r @@ [hitl_status |-> IF r.confidence_score < CONFIDENCE_THRESHOLD
                             THEN "REQUIRES_REVIEW" ELSE "AUTO_APPROVED",
          validation_consensus |-> None]

----------------------------------------------------------------------------
(* EnhancedGeminiClassifier (enhanced_classifier.py) *)

\* _calibrate_confidence.  raw * (0.7 + 0.3 * precision) is a / 10^9 for
\* a == raw * (70000 + 3 * precision); the consensus bonus multiplies by 11/10;
\* the value is clamped to [0, 1] and then rounded to 4 decimals.
calibrate_confidence(m, raw_confidence, category, has_consensus) ==
    LET precision == IF category \in DOMAIN m.category_stats
                        THEN m.category_stats[category].precision ELSE 5000
        a == raw_confidence * (70000 + 3 * precision)
    IN  IF a <= 0 THEN 0
        ELSE IF Truthy(has_consensus) THEN
            IF 11 * (a \div 1000000) >= 10000 THEN 10000
            ELSE Min(10000, 11 * (a \div 1000000)
                            + RoundDiv(11 * (a % 1000000), 1000000))
        ELSE IF a >= 1000000000 THEN 10000
        ELSE RoundDiv(a, 100000)

\* a variant of the score that gives the top confidence band 45 points
AutoApprovalScoreHeavy(m, confidence, category, has_consensus, safety_score) ==
    LET precision == IF category \in DOMAIN m.category_stats
                        THEN m.category_stats[category].precision ELSE 0
    IN  (IF confidence >= 9500 THEN 45
         ELSE IF confidence >= 9000 THEN 30
         ELSE IF confidence >= 8500 THEN 20 ELSE 0)
        + (IF Truthy(has_consensus) THEN 30 ELSE 0)
        + (IF precision >= 9500 THEN 20 ELSE IF precision >= 9000 THEN 15 ELSE 0)
        + (IF safety_score >= 9500 THEN 10 ELSE 0)

\* _enhanced_hitl_decision, lines 240-269: the auto_approval_score, in 1/100
AutoApprovalScore(m, confidence, category, has_consensus, safety_score) ==
    LET precision == IF category \in DOMAIN m.category_stats
                        THEN m.category_stats[category].precision ELSE 0
    IN  (IF confidence >= 9500 THEN 40
         ELSE IF confidence >= 9000 THEN 30
         ELSE IF confidence >= 8500 THEN 20 ELSE 0)
        + (IF Truthy(has_consensus) THEN 30 ELSE 0)
        + (IF precision >= 9500 THEN 20 ELSE IF precision >= 9000 THEN 15 ELSE 0)
        + (IF safety_score >= 9500 THEN 10 ELSE 0)

\* a variant that approves only above the threshold
enhanced_hitl_decision_strict(m, classification_result, safety) ==
    LET auto_approval_score ==
            AutoApprovalScore(m, classification_result.confidence_score,
                              classification_result.final_category,
                              classification_result.validation_consensus,
                              safety.safety_score)
    IN  [status |-> IF auto_approval_score > 75
                       THEN "AUTO_APPROVED" ELSE "REQUIRES_REVIEW",
         auto_approval_probability |-> auto_approval_score]

\* _enhanced_hitl_decision, lines 271-294
enhanced_hitl_decision(m, classification_result, safety) ==
    LET auto_approval_score ==
            AutoApprovalScore(m, classification_result.confidence_score,
                              classification_result.final_category,
                              classification_result.validation_consensus,
                              safety.safety_score)
    IN  [status |-> IF auto_approval_score >= 75
                       THEN "AUTO_APPROVED" ELSE "REQUIRES_REVIEW",
         auto_approval_probability |-> auto_approval_score]

\* a variant of the bypass that lets the HITL scoring decide the status
BypassResultScored(document_id, safety) ==
    [document_id |-> document_id,
     final_category |-> "UNSAFE",
     confidence_score |-> 10000,
     reasoning_summary |-> "Content safety validation failed.",
     citation_snippet |-> "Multiple safety violations detected",
     safety_details |-> safety,
     child_safe |-> safety.child_safe,
     hitl_status |->
         enhanced_hitl_decision(metrics,
                                [final_category |-> "UNSAFE",
                                 confidence_score |-> 10000,
                                 validation_consensus |-> "True"],
                                safety).status,
     validation_consensus |-> "True"]

\* classify, lines 66-85: the result built when validate reports is_safe false
BypassResult(document_id, safety) ==
    [document_id |-> document_id,
     final_category |-> "UNSAFE",
     confidence_score |-> 10000,
     reasoning_summary |-> "Content safety validation failed.",
     citation_snippet |-> "Multiple safety violations detected",
     safety_details |-> safety,
     child_safe |-> safety.child_safe,
     hitl_status |-> "REQUIRES_REVIEW",
     validation_consensus |-> "True"]

\* classify, lines 111-130: the base classifier's result after calibration
\* and the HITL decision
EnhancedResult(m, base, safety) ==
    LET calibrated == [base EXCEPT
                          !.confidence_score =
                              calibrate_confidence(m, base.confidence_score,
                                                   base.final_category,
                                                   base.validation_consensus)]
                      @@ [original_confidence |-> base.confidence_score]
        hitl_decision == enhanced_hitl_decision(m, calibrated, safety)
    IN  [calibrated EXCEPT !.hitl_status = hitl_decision.status]
        @@ [auto_approval_probability |-> hitl_decision.auto_approval_probability,
            safety_details |-> safety,
            child_safe |-> safety.child_safe]

\* classify, lines 88-91 and 142-148: `if ground_truth:` record_prediction
Tracked(m, res, ground_truth) ==
    IF ground_truth # None
        THEN record_prediction(m, res.final_category, ground_truth,
                               res.confidence_score, res.document_id)
        ELSE m

TrackedFile(m, file, ground_truth) ==
    IF ground_truth # None THEN SavedMetrics(m) ELSE file

CallName(check, validation_pass) ==
    check \o (IF validation_pass = 1 THEN "#1" ELSE "#2")

----------------------------------------------------------------------------
(* The state machine: one EnhancedGeminiClassifier serving classify calls   *)
(* one at a time.  A step ends at each call to the oracle, whose answer is  *)
(* the input of the next step.  An exception nothing catches ends the call  *)
(* at pc = "raised", with no result.                                        *)

Init ==
    /\ config \in [DUAL_VALIDATION_ENABLED : BOOLEAN]
    /\ metrics = EmptyMetrics
    /\ metrics_file = NoMetricsFile
    /\ pc = "idle"
    /\ doc = NoDict
    /\ safety_result = NoDict
    /\ pass = 0
    /\ step_results = {}
    /\ response = None
    /\ check_result = NoDict
    /\ result1 = NoDict
    /\ result2 = NoDict
    /\ result = NoDict
    /\ oracle_calls = <<>>
    /\ metrics_plain = FALSE
    /\ call = NoCall
    /\ threads = NoThreads
    /\ audit_log = EmptyAuditLog
    /\ job = NoJob

\* EnhancedGeminiClassifier.classify is called; validate runs its pattern
\* layer (content_safety.py 75-90) and calls the oracle for the deep check.
StartClassify(document_id, matched, ground_truth) ==
    /\ pc = "idle"
    /\ ground_truth # None => metrics.total_ground_truth < MaxGroundTruth
    /\ doc' = [document_id |-> document_id,
               matched |-> matched,
               ground_truth |-> ground_truth]
    /\ safety_result' = ValidateLayer1(pattern_based_check(matched))
    /\ pc' = "ai_safety_check"
    /\ UNCHANGED <<config, metrics, metrics_file, pass, step_results, response,
                   check_result, result1, result2, result, oracle_calls>>
    /\ UNCHANGED other_vars

\* The deep check answers; validate folds it in (93-98) and calls the oracle
\* for the child-safety check.  A key validate reads that the answer lacks
\* is a KeyError, which nothing catches.
AiSafetyCheck(answer) ==
    /\ pc = "ai_safety_check"
    /\ LET ai_results == ai_safety_check(answer)
       IN  /\ response' = answer.kind
           /\ check_result' = ai_results
           /\ oracle_calls' = Append(oracle_calls, "ai_safety_check")
           /\ IF HasKeys(ai_results, AiKeysRead(ai_results))
                 THEN /\ safety_result' = ValidateLayer2(safety_result, ai_results)
                      /\ pc' = "child_safety_check"
                 ELSE /\ safety_result' = safety_result
                      /\ pc' = "raised"
    /\ UNCHANGED <<config, metrics, metrics_file, doc, pass, step_results,
                   result1, result2, result>>
    /\ UNCHANGED other_vars

\* The child-safety check answers; validate returns (101-121).  classify
\* then returns the UNSAFE result without classifying (62-93), or starts
\* pass 1 of the base classifier (101).  check_result still holds the deep
\* check's ai_results.
ChildSafetyCheck(answer) ==
    /\ pc = "child_safety_check"
    /\ LET child_safety == child_safety_check(answer)
           safety == ValidateDetail(ValidateLayer3(safety_result, child_safety),
                                    pattern_based_check(doc.matched),
                                    check_result, child_safety)
           blocked == BypassResult(doc.document_id, safety)
       IN  /\ response' = answer.kind
           /\ check_result' = child_safety
           /\ oracle_calls' = Append(oracle_calls, "child_safety_check")
           /\ IF ~HasKeys(child_safety, ChildKeysRead(child_safety)) THEN
                   /\ pc' = "raised"
                   /\ UNCHANGED <<safety_result, result, metrics, metrics_file, pass>>
              ELSE IF ~safety.is_safe THEN
                   /\ safety_result' = safety
                   /\ result' = blocked
                   /\ metrics' = Tracked(metrics, blocked, doc.ground_truth)
                   /\ metrics_file' =
                          TrackedFile(metrics', metrics_file, doc.ground_truth)
                   /\ pc' = "done"
                   /\ pass' = pass
              ELSE /\ safety_result' = safety
                   /\ pass' = 1
                   /\ pc' = "cascade"
                   /\ UNCHANGED <<result, metrics, metrics_file>>
    /\ UNCHANGED <<config, doc, step_results, result1, result2>>
    /\ UNCHANGED other_vars

\* GeminiClassifier.classify returned `base` (classifier.py 103/112/117);
\* EnhancedGeminiClassifier.classify calibrates, decides, tracks and returns.
\* result1 keeps the dict as the base classifier returned it.
FinishClassify(base, second) ==
    LET enhanced == EnhancedResult(metrics, base, safety_result)
    IN  /\ result1' = base
        /\ result2' = second
        /\ result' = enhanced
        /\ metrics' = Tracked(metrics, enhanced, doc.ground_truth)
        /\ metrics_file' = TrackedFile(metrics', metrics_file, doc.ground_truth)
        /\ pc' = "done"

\* the check _classify_single calls next
NextCheck == Checks[Cardinality(step_results) + 1]

\* The oracle answers the next check of the cascade pass in progress
\* (_classify_single, and classify once the last pass has returned).
CascadeCheck(answer) ==
    /\ pc = "cascade"
    /\ answer \in CheckResponses(NextCheck)
    /\ LET r == RunCheck(NextCheck, answer)
           keys == step_results \cup {NextCheck}
           step == CascadeStep(NextCheck, r, doc.document_id, pass, keys)
       IN  /\ response' = answer.kind
           /\ check_result' = r
           /\ oracle_calls' = Append(oracle_calls, CallName(NextCheck, pass))
           /\ IF step.kind = "raise" THEN
                   /\ pc' = "raised"
                   /\ step_results' = keys
                   /\ result1' = NoDict
                   /\ UNCHANGED <<pass, result2, result, metrics, metrics_file>>
              ELSE IF step.kind = "next" THEN
                   /\ step_results' = keys
                   /\ UNCHANGED <<pc, pass, result1, result2, result, metrics,
                                  metrics_file>>
              ELSE IF pass = 1 /\ config.DUAL_VALIDATION_ENABLED THEN
                   /\ result1' = step.result
                   /\ pass' = 2
                   /\ step_results' = {}
                   /\ UNCHANGED <<pc, result2, result, metrics, metrics_file>>
              ELSE /\ IF pass = 2
                         THEN FinishClassify(DualValidation(result1, step.result),
                                             step.result)
                         ELSE FinishClassify(SingleValidation(step.result), NoDict)
                   /\ step_results' = keys
                   /\ pass' = pass
    /\ UNCHANGED <<config, doc, safety_result>>
    /\ UNCHANGED other_vars

\* The caller takes the result, or the exception, of the call.
Return ==
    /\ pc \in {"done", "raised"}
    /\ pc' = "idle"
    /\ doc' = NoDict
    /\ safety_result' = NoDict
    /\ pass' = 0
    /\ step_results' = {}
    /\ response' = None
    /\ check_result' = NoDict
    /\ result1' = NoDict
    /\ result2' = NoDict
    /\ result' = NoDict
    /\ oracle_calls' = <<>>
    /\ UNCHANGED <<config, metrics, metrics_file>>
    /\ UNCHANGED other_vars

Classify ==
    \E id \in DocumentIds, matched \in PatternMatches, gt \in GroundTruths :
        StartClassify(id, matched, gt)

Cascade ==
    \E answer \in UNION {CheckResponses(Checks[i]) : i \in 1..3} :
        CascadeCheck(answer)

\* the whole pipeline
Next ==
    \/ Classify
    \/ \E answer \in PipelineAiSafetyResponses : AiSafetyCheck(answer)
    \/ \E answer \in PipelineChildSafetyResponses : ChildSafetyCheck(answer)
    \/ Cascade
    \/ Return

Spec == Init /\ [][Next]_vars

\* the pipeline up to the return of ContentSafetyValidator.validate, under
\* every answer of the oracle to its two checks
NextSafety ==
    \/ Classify
    \/ \E answer \in AiSafetyResponses : AiSafetyCheck(answer)
    \/ \E answer \in ChildSafetyResponses : ChildSafetyCheck(answer)
    \/ Return

SpecSafety == Init /\ [][NextSafety]_vars

----------------------------------------------------------------------------
(* The calibrator and the HITL decision, called on trackers of every kind   *)

\* the classify call at rest (no call running)
ClassifyIdle ==
    /\ pc = "idle"
    /\ doc = NoDict
    /\ safety_result = NoDict
    /\ pass = 0
    /\ step_results = {}
    /\ response = None
    /\ check_result = NoDict
    /\ result1 = NoDict
    /\ result2 = NoDict
    /\ result = NoDict
    /\ oracle_calls = <<>>

\* tp predictions of PUBLIC that were PUBLIC, then fp that were SENSITIVE,
\* as record_prediction calls
Outcomes(tp, fp) ==
    [i \in 1..(tp + fp) |->
        [predicted |-> "PUBLIC",
         ground_truth |-> IF i <= tp THEN "PUBLIC" ELSE "SENSITIVE",
         confidence |-> 9000,
         document_id |-> "doc"]]

\* the tracker after the record_prediction calls of `history`, from empty
RECURSIVE Replay(_)
Replay(history) ==
    IF history = <<>> THEN EmptyMetrics
    ELSE LET last == history[Len(history)]
         IN  record_prediction(Replay(SubSeq(history, 1, Len(history) - 1)),
                               last.predicted, last.ground_truth,
                               last.confidence, last.document_id)

\* trackers the scoring is called on: empty, and with PUBLIC precision 1.0,
\* 0.95, 0.9 and 0.85 (SENSITIVE, CONFIDENTIAL and UNSAFE have precision 0.0)
ScoringHistories ==
    {<<>>, Outcomes(1, 0), Outcomes(19, 1), Outcomes(9, 1), Outcomes(17, 3)}

\* raw confidences on which round() of the double and RoundDiv agree
RawConfidences == {-1000, 0, 6000, 8000, 9000, 10000, 15000}
DecisionConfidences == {8499, 8500, 8999, 9000, 9499, 9500, 10000}
DecisionSafetyScores == {9499, 9500, 10000}
ScoredCategories == {"PUBLIC", "UNSAFE"}
Consensus == {"True", "False", None}

InitScoring ==
    /\ config \in [DUAL_VALIDATION_ENABLED : BOOLEAN]
    /\ metrics \in {Replay(h) : h \in ScoringHistories}
    /\ metrics_file = IF metrics = EmptyMetrics THEN NoMetricsFile
                                               ELSE SavedMetrics(metrics)
    /\ ClassifyIdle
    /\ metrics_plain = FALSE
    /\ call = NoCall
    /\ threads = NoThreads
    /\ audit_log = EmptyAuditLog
    /\ job = NoJob

\* _calibrate_confidence(raw_confidence, category, has_consensus) is called
CalibrateConfidence(raw_confidence, category, has_consensus) ==
    /\ call' = [op |-> "_calibrate_confidence",
                raw_confidence |-> raw_confidence,
                category |-> category,
                has_consensus |-> has_consensus,
                ret |-> calibrate_confidence(metrics, raw_confidence, category,
                                             has_consensus)]
    /\ UNCHANGED <<config, metrics, metrics_file, classify_vars, metrics_plain,
                   threads, audit_log, job>>

\* _enhanced_hitl_decision(classification_result, safety_result) is called
EnhancedHitlDecision(confidence, category, consensus, safety_score) ==
    /\ call' = [op |-> "_enhanced_hitl_decision",
                confidence_score |-> confidence,
                final_category |-> category,
                validation_consensus |-> consensus,
                safety_score |-> safety_score,
                ret |-> enhanced_hitl_decision(
                            metrics,
                            [confidence_score |-> confidence,
                             final_category |-> category,
                             validation_consensus |-> consensus],
                            [safety_score |-> safety_score])]
    /\ UNCHANGED <<config, metrics, metrics_file, classify_vars, metrics_plain,
                   threads, audit_log, job>>

NextScoring ==
    \/ \E raw \in RawConfidences, c \in ScoredCategories, k \in Consensus :
          CalibrateConfidence(raw, c, k)
    \/ \E conf \in DecisionConfidences, c \in ScoredCategories, k \in Consensus,
          s \in DecisionSafetyScores :
          EnhancedHitlDecision(conf, c, k, s)

SpecScoring == InitScoring /\ [][NextScoring]_vars

----------------------------------------------------------------------------
(* The tracker called on its own, from empty, within one process            *)

TrackedCategories == {"PUBLIC", "SENSITIVE", "UNSAFE"}

\* the arguments of the record_prediction calls
Predictions ==
    {[predicted |-> c, ground_truth |-> g, confidence |-> 9000]
        : c \in TrackedCategories, g \in TrackedCategories}
    \cup {[predicted |-> "PUBLIC", ground_truth |-> None, confidence |-> x]
             : x \in {8500, 9500}}

InitTracker ==
    /\ config \in [DUAL_VALIDATION_ENABLED : BOOLEAN]
    /\ metrics = EmptyMetrics
    /\ metrics_file = NoMetricsFile
    /\ ClassifyIdle
    /\ metrics_plain = FALSE
    /\ call = NoCall
    /\ threads = NoThreads
    /\ audit_log = EmptyAuditLog
    /\ job = NoJob

\* AccuracyTracker.record_prediction is called on a tracker whose containers
\* are the defaultdicts
RecordPrediction(predicted, ground_truth, confidence, document_id) ==
    /\ ~metrics_plain
    /\ metrics.total_predictions < MaxRecorded
    /\ metrics' = record_prediction(metrics, predicted, ground_truth, confidence,
                                    document_id)
    /\ metrics_file' = SavedMetrics(metrics')
    /\ call' = [op |-> "record_prediction",
                predicted |-> predicted,
                ground_truth |-> ground_truth,
                confidence |-> confidence,
                document_id |-> document_id]
    /\ UNCHANGED <<config, classify_vars, metrics_plain, threads, audit_log, job>>

\* EnhancedGeminiClassifier.record_hitl_correction is called
RecordHitlCorrection(document_id, original, corrected, confidence) ==
    /\ ~metrics_plain
    /\ metrics.total_predictions < MaxRecorded
    /\ metrics' = record_hitl_correction(metrics, document_id, original, corrected,
                                         confidence)
    /\ metrics_file' = SavedMetrics(metrics')
    /\ call' = [op |-> "record_hitl_correction",
                document_id |-> document_id,
                original |-> original,
                corrected |-> corrected,
                confidence |-> confidence]
    /\ UNCHANGED <<config, classify_vars, metrics_plain, threads, audit_log, job>>

NextTracker ==
    \/ \E a \in Predictions, id \in DocumentIds :
          RecordPrediction(a.predicted, a.ground_truth, a.confidence, id)
    \/ \E id \in DocumentIds, original \in TrackedCategories,
          corrected \in TrackedCategories :
          RecordHitlCorrection(id, original, corrected, 9000)
    \/ \E c \in TrackedCategories : CalibrateConfidence(9000, c, "False")

SpecTracker == InitTracker /\ [][NextTracker]_vars

----------------------------------------------------------------------------
(* The HITL submission handler of the web UI (ui/app.py) and the audit log  *)

\* AuditLogger.log_classification: the tables after the call
log_classification(log, classification_result) ==
    LET document_id == classification_result.document_id
    IN  [classifications |->
             Put(log.classifications, document_id,
                 [final_category |-> classification_result.final_category,
                  confidence_score |-> classification_result.confidence_score,
                  hitl_status |-> classification_result.hitl_status]),
         hitl_reviews |->
             SelectSeq(log.hitl_reviews, LAMBDA r : r.document_id # document_id)]

\* AuditLogger.get_classification: the row, or None
get_classification(log, document_id) ==
    IF document_id \in DOMAIN log.classifications
        THEN log.classifications[document_id] ELSE None

\* AuditLogger.log_hitl_review: the tables after the call
log_hitl_review(log, document_id, original_category, corrected_category) ==
    [classifications |->
         IF document_id \in DOMAIN log.classifications
             THEN [log.classifications EXCEPT
                      ![document_id].hitl_status = "REVIEWED",
                      ![document_id].final_category = corrected_category]
             ELSE log.classifications,
     hitl_reviews |->
         Append(log.hitl_reviews,
                [document_id |-> document_id,
                 original_category |-> original_category,
                 corrected_category |-> corrected_category])]

\* the documents a review is submitted for: one uploaded, one never seen
ReviewedDocumentIds == DocumentIds \cup {"unknown"}

\* how adding the corrected document to the knowledge base ends:
\* the file is gone, the example is added, or the processing raises
Ingestions == {"no file", "added", "raised"}

\* upload_file logs the result classify returned for an uploaded document
LogClassification(document_id, category, confidence, hitl_status) ==
    /\ audit_log' = log_classification(audit_log,
                                       [document_id |-> document_id,
                                        final_category |-> category,
                                        confidence_score |-> confidence,
                                        hitl_status |-> hitl_status])
    /\ call' = [op |-> "log_classification", document_id |-> document_id]
    /\ UNCHANGED <<config, metrics, metrics_file, classify_vars, metrics_plain,
                   threads, job>>

\* POST /hitl/submit: submit_hitl_review
SubmitHitlReview(document_id, corrected_category, ingestion) ==
    LET original == get_classification(audit_log, document_id)
    IN  /\ Len(audit_log.hitl_reviews) < MaxReviews
        \* `if not original`: get_classification found no row
        /\ IF document_id \notin DOMAIN audit_log.classifications THEN
                /\ ingestion = "no file"
                /\ audit_log' = audit_log
                /\ call' = [op |-> "submit_hitl_review",
                            document_id |-> document_id,
                            corrected_category |-> corrected_category,
                            status |-> 404]
           ELSE /\ original.final_category = corrected_category
                       => ingestion = "no file"
                /\ audit_log' = log_hitl_review(audit_log, document_id,
                                                original.final_category,
                                                corrected_category)
                /\ call' = [op |-> "submit_hitl_review",
                            document_id |-> document_id,
                            corrected_category |-> corrected_category,
                            status |-> IF ingestion = "raised" THEN 500 ELSE 200]
        /\ UNCHANGED <<config, metrics, metrics_file, classify_vars, metrics_plain,
                       threads, job>>

NextHitl ==
    \/ \E id \in DocumentIds, c \in CATEGORIES,
          h \in {"AUTO_APPROVED", "REQUIRES_REVIEW"} :
          LogClassification(id, c, 9000, h)
    \/ \E id \in ReviewedDocumentIds, c \in CATEGORIES, i \in Ingestions :
          SubmitHitlReview(id, c, i)

SpecHitl == InitTracker /\ [][NextHitl]_vars

----------------------------------------------------------------------------
(* The tracker across process restarts: _load_metrics returns what          *)
(* json.load gives, plain dicts without the default factories               *)

\* the keys record_prediction subscripts, in the order of the subscripts
BinPresent(m, confidence) == ConfidenceBin(confidence) \in DOMAIN m.confidence_bins
CellPresent(m, ground_truth, predicted) ==
    /\ ground_truth \in DOMAIN m.confusion_matrix
    /\ predicted \in DOMAIN m.confusion_matrix[ground_truth]
StatsPresent(m) == CATEGORIES \subseteq DOMAIN m.category_stats

\* record_prediction on loaded metrics: the metrics when the call ends and
\* whether it ended in a KeyError (of the bin at line 81, of the row or the
\* cell at line 92, of a category's stats at lines 98-104 and 136), which
\* leaves the updates made so far and skips _save_metrics.  A cell is only
\* ever written by a call that went through _recalculate_metrics, which
\* fills the stats of every category, so the last KeyError needs a file that
\* no call of the tracker writes.
record_prediction_plain(m, predicted, ground_truth, confidence, document_id) ==
    LET bin == ConfidenceBin(confidence)
        counted == [m EXCEPT !.total_predictions = @ + 1]
        entry == [predicted |-> predicted,
                  ground_truth |-> ground_truth,
                  correct |-> IF ground_truth # None
                                 THEN PyBool(predicted = ground_truth) ELSE None,
                  document_id |-> document_id]
    IN  IF ~BinPresent(m, confidence)
            THEN [metrics |-> counted, raised |-> TRUE]
        ELSE LET binned == [counted EXCEPT !.confidence_bins[bin] = Append(@, entry)]
                 truthed == [binned EXCEPT !.total_ground_truth = @ + 1]
             IN  IF ground_truth = None
                     THEN [metrics |-> binned, raised |-> FALSE]
                 ELSE IF ~CellPresent(m, ground_truth, predicted)
                     THEN [metrics |-> truthed, raised |-> TRUE]
                 ELSE IF ~StatsPresent(m)
                     THEN [metrics |->
                               [truthed EXCEPT
                                   !.confusion_matrix[ground_truth][predicted] = @ + 1],
                           raised |-> TRUE]
                 ELSE [metrics |-> record_prediction(m, predicted, ground_truth,
                                                     confidence, document_id),
                       raised |-> FALSE]

\* the process restarts: AccuracyTracker.__init__ loads the metrics
Restart ==
    /\ IF metrics_file.exists
          THEN /\ metrics' = metrics_file.content
               /\ metrics_plain' = TRUE
          ELSE /\ metrics' = EmptyMetrics
               /\ metrics_plain' = FALSE
    /\ call' = [op |-> "_load_metrics"]
    /\ UNCHANGED <<config, metrics_file, classify_vars, threads, audit_log, job>>

\* record_prediction is called on a tracker that was loaded from the file
RecordPredictionLoaded(predicted, ground_truth, confidence, document_id) ==
    /\ metrics_plain
    /\ metrics.total_predictions < MaxRecorded
    /\ LET end == record_prediction_plain(metrics, predicted, ground_truth,
                                         confidence, document_id)
       IN  /\ metrics' = end.metrics
           /\ metrics_file' = IF end.raised THEN metrics_file
                                            ELSE SavedMetrics(end.metrics)
    /\ call' = [op |-> "record_prediction",
                predicted |-> predicted,
                ground_truth |-> ground_truth,
                confidence |-> confidence,
                document_id |-> document_id]
    /\ UNCHANGED <<config, classify_vars, metrics_plain, threads, audit_log, job>>

\* record_hitl_correction is called on a tracker that was loaded from the file
RecordHitlCorrectionLoaded(document_id, original, corrected, confidence) ==
    /\ metrics_plain
    /\ metrics.total_predictions < MaxRecorded
    /\ LET logged == [metrics EXCEPT !.hitl_corrections =
                          Append(@, [document_id |-> document_id,
                                     original |-> original,
                                     corrected |-> corrected,
                                     confidence |-> confidence])]
           end == record_prediction_plain(logged, original, corrected, confidence,
                                         document_id)
       IN  /\ metrics' = end.metrics
           /\ metrics_file' = IF end.raised THEN metrics_file
                                            ELSE SavedMetrics(end.metrics)
    /\ call' = [op |-> "record_hitl_correction",
                document_id |-> document_id,
                original |-> original,
                corrected |-> corrected,
                confidence |-> confidence]
    /\ UNCHANGED <<config, classify_vars, metrics_plain, threads, audit_log, job>>

NextRestart ==
    \/ \E a \in Predictions, id \in DocumentIds :
          \/ RecordPrediction(a.predicted, a.ground_truth, a.confidence, id)
          \/ RecordPredictionLoaded(a.predicted, a.ground_truth, a.confidence, id)
    \/ \E id \in DocumentIds, original \in TrackedCategories,
          corrected \in TrackedCategories :
          \/ RecordHitlCorrection(id, original, corrected, 9000)
          \/ RecordHitlCorrectionLoaded(id, original, corrected, 9000)
    \/ Restart

SpecRestart == InitTracker /\ [][NextRestart]_vars

----------------------------------------------------------------------------
(* The reports of the tracker (accuracy_tracker.py lines 163-260).  The     *)
(* keys of confidence_bins are the bins in tenths, so float(bin_str) is     *)
(* 1000 times the key in 1/10000; the percentages are in 1/100 of a percent *)

RECURSIVE SumTruePositives(_, _)
SumTruePositives(stats, cats) ==
    IF cats = {} THEN 0
    ELSE LET c == CHOOSE x \in cats : TRUE
         IN  stats[c].true_positives + SumTruePositives(stats, cats \ {c})

RECURSIVE SumF1(_, _)
SumF1(stats, cats) ==
    IF cats = {} THEN 0
    ELSE LET c == CHOOSE x \in cats : TRUE
         IN  stats[c].f1_score + SumF1(stats, cats \ {c})

get_overall_accuracy(m) ==
    IF m.total_ground_truth = 0 THEN 0
    ELSE RoundDiv(SumTruePositives(m.category_stats, DOMAIN m.category_stats) * 10000,
                  m.total_ground_truth)

get_macro_f1(m) ==
    LET scored == {c \in DOMAIN m.category_stats : m.category_stats[c].f1_score > 0}
    IN  IF scored = {} THEN 0
        ELSE RoundDiv(SumF1(m.category_stats, scored), Cardinality(scored))

\* sum(1 for p in predictions if p['correct'] is True)
CorrectIn(predictions) ==
    Cardinality({k \in DOMAIN predictions : predictions[k].correct = "True"})

\* the loop body of get_confidence_calibration for a bin that has entries:
\* |expected - correct / total| is |expected * total - correct| / total
CalibrationOfBin(bin, predictions) ==
    LET correct == CorrectIn(predictions)
        total == Len(predictions)
        scaled == bin * 1000 * total - correct * 10000
    IN  [expected |-> bin * 1000,
         actual |-> RoundDiv(correct * 10000, total),
         samples |-> total,
         calibration_error |->
             RoundDiv(IF scaled >= 0 THEN scaled ELSE 0 - scaled, total)]

get_confidence_calibration(m) ==
    [bin \in {b \in DOMAIN m.confidence_bins : Len(m.confidence_bins[b]) > 0} |->
        CalibrationOfBin(bin, m.confidence_bins[bin])]

_get_hitl_correction_rate(m) ==
    IF m.total_predictions = 0 THEN 0
    ELSE RoundDiv(Len(m.hitl_corrections) * 10000, m.total_predictions)

get_detailed_report(m) ==
    [overall_accuracy |-> get_overall_accuracy(m),
     macro_f1_score |-> get_macro_f1(m),
     total_predictions |-> m.total_predictions,
     total_with_ground_truth |-> m.total_ground_truth,
     category_metrics |-> m.category_stats,
     confusion_matrix |-> m.confusion_matrix,
     confidence_calibration |-> get_confidence_calibration(m),
     hitl_correction_rate |-> _get_hitl_correction_rate(m)]

report_vars == <<config, metrics, metrics_file, classify_vars, metrics_plain,
                 threads, audit_log, job>>

\* get_confidence_calibration is called
GetConfidenceCalibration ==
    /\ call' = [op |-> "get_confidence_calibration",
                ret |-> get_confidence_calibration(metrics)]
    /\ UNCHANGED report_vars

\* get_detailed_report is called
GetDetailedReport ==
    /\ call' = [op |-> "get_detailed_report", ret |-> get_detailed_report(metrics)]
    /\ UNCHANGED report_vars

\* export_report is called: the report goes to the file at output_path
ExportReport ==
    /\ call' = [op |-> "export_report", written |-> get_detailed_report(metrics)]
    /\ UNCHANGED report_vars

NextReport ==
    \/ NextRestart
    \/ GetConfidenceCalibration
    \/ GetDetailedReport
    \/ ExportReport

SpecReport == InitTracker /\ [][NextReport]_vars

----------------------------------------------------------------------------
(* Several threads inside one AccuracyTracker: the tracker holds no lock,   *)
(* so the threads that call record_prediction on it run the method          *)
(* unguarded.  A thread can be switched out between the read                *)
(* and the write of `total_predictions += 1` and between building the       *)
(* serializable dict and writing it; the updates of lines 80-107 are taken  *)
(* in one step, which leaves out interleavings and adds none.               *)

MaxThreads == 2     \* threads that enter the tracker

ThreadCalls ==
    {[predicted |-> "PUBLIC", ground_truth |-> None, confidence |-> 8500],
     [predicted |-> "PUBLIC", ground_truth |-> "PUBLIC", confidence |-> 9000],
     [predicted |-> "UNSAFE", ground_truth |-> "PUBLIC", confidence |-> 9000]}

ThreadAt(t, at) == t \in DOMAIN threads /\ threads[t].at = at

thread_vars == <<config, classify_vars, metrics_plain, call, audit_log, job>>

\* a thread calls record_prediction
ThreadCall(a, document_id) ==
    /\ Len(threads) < MaxThreads
    /\ threads' = Append(threads, [at |-> "called",
                                   predicted |-> a.predicted,
                                   ground_truth |-> a.ground_truth,
                                   confidence |-> a.confidence,
                                   document_id |-> document_id])
    /\ UNCHANGED <<metrics, metrics_file, thread_vars>>

\* line 77, the read of self.metrics['total_predictions']
ThreadLoad(t) ==
    /\ ThreadAt(t, "called")
    /\ threads' = [threads EXCEPT ![t] =
                       [at |-> "loaded", loaded |-> metrics.total_predictions]
                       @@ threads[t]]
    /\ UNCHANGED <<metrics, metrics_file, thread_vars>>

\* line 77, the write of the incremented value
ThreadStore(t) ==
    /\ ThreadAt(t, "loaded")
    /\ metrics' = [metrics EXCEPT !.total_predictions = threads[t].loaded + 1]
    /\ threads' = [threads EXCEPT ![t].at = "counted"]
    /\ UNCHANGED <<metrics_file, thread_vars>>

\* lines 80-107: the bin entry and, with a ground truth, the counters
ThreadRecord(t) ==
    /\ ThreadAt(t, "counted")
    /\ metrics' = [record_prediction(metrics, threads[t].predicted,
                                     threads[t].ground_truth, threads[t].confidence,
                                     threads[t].document_id)
                      EXCEPT !.total_predictions = metrics.total_predictions]
    /\ threads' = [threads EXCEPT ![t].at = "recorded"]
    /\ UNCHANGED <<metrics_file, thread_vars>>

\* _save_metrics lines 54-61: the serializable copy of the metrics
ThreadSerialize(t) ==
    /\ ThreadAt(t, "recorded")
    /\ threads' = [threads EXCEPT ![t] =
                       [at |-> "serialized", serializable |-> metrics] @@ threads[t]]
    /\ UNCHANGED <<metrics, metrics_file, thread_vars>>

\* _save_metrics lines 63-64: the file gets the copy; the call returns
ThreadWrite(t) ==
    /\ ThreadAt(t, "serialized")
    /\ metrics_file' = SavedMetrics(threads[t].serializable)
    /\ threads' = [threads EXCEPT ![t].at = "returned"]
    /\ UNCHANGED <<metrics, thread_vars>>

NextThreads ==
    \/ \E a \in ThreadCalls, id \in DocumentIds : ThreadCall(a, id)
    \/ \E t \in 1..MaxThreads :
          \/ ThreadLoad(t)
          \/ ThreadStore(t)
          \/ ThreadRecord(t)
          \/ ThreadSerialize(t)
          \/ ThreadWrite(t)

SpecThreads == InitTracker /\ [][NextThreads]_vars

----------------------------------------------------------------------------
(* BatchProcessor (processing/batch_processor.py) with one job.  A job is   *)
(* the BatchJob's fields (files are numbered 1..total_files; the time       *)
(* stamps are left out) together with the state of the process_batch call   *)
(* that runs it: `at`, `runs` (the calls of process_batch so far) and       *)
(* `futures`, the future_to_file dict.  The processor's max_workers is kept *)
(* with its one job.                                                        *)

MaxFiles == 2       \* files of a batch job
MaxRuns == 2        \* process_batch calls on the job
MaxProcessed == 4   \* files the calls on the job process in all

\* str(e) of the exceptions a file's processing raises: str(MemoryError())
\* and str(AssertionError()) are empty
ErrorMessages == {"boom", ""}

\* the max_workers argument of BatchProcessor.__init__ (3 by default)
WorkerCounts == {1, 3}

\* BatchJob.__init__
BatchJob(n) ==
    [status |-> "QUEUED",
     total_files |-> n,
     processed_files |-> 0,
     failed_files |-> 0,
     results |-> <<>>,
     current_file |-> 0,        \* None: the files are numbered from 1
     at |-> "idle",
     runs |-> 0,
     futures |-> <<>>]

\* what _process_single_file returns for file i (document_id, classification,
\* confidence, hitl_status and processing_time of a success are left out)
SuccessResult(i) == [file |-> i, status |-> "SUCCESS"]
FailedResult(i, message) == [file |-> i, error |-> message, status |-> "FAILED"]

\* `if result.get('error')`: the key is there and its string is not empty
HasError(r) == "error" \in DOMAIN r /\ r.error # ""

batch_vars == <<config, metrics, metrics_file, classify_vars, metrics_plain, call,
                threads, audit_log>>

\* BatchProcessor.__init__ and create_batch_job
CreateBatchJob(n, max_workers) ==
    /\ job = NoJob
    /\ job' = [max_workers |-> max_workers] @@ BatchJob(n)
    /\ UNCHANGED batch_vars

\* process_batch up to the submission of the files (lines 110-125)
ProcessBatch ==
    /\ job # NoJob
    /\ job.at = "idle"
    /\ job.runs < MaxRuns
    /\ job.processed_files + job.total_files <= MaxProcessed
    /\ job' = [job EXCEPT !.status = "PROCESSING",
                          !.at = "running",
                          !.runs = @ + 1,
                          !.futures = [i \in 1..job.total_files |->
                                          [state |-> "submitted"]]]
    /\ UNCHANGED batch_vars

\* job.lock is free: the loop of process_batch is not between the append of
\* a result and the last count
JobLockFree ==
    \A i \in DOMAIN job.futures : job.futures[i].state \notin {"appended", "counted"}

\* the files a worker of the executor is processing
InFlight == {i \in DOMAIN job.futures : job.futures[i].state = "running"}

\* a free worker of the executor picks file i up and enters
\* _process_single_file, which sets current_file under job.lock (lines
\* 171-172); nothing on the way reads job.status
PickUpFile(i) ==
    /\ job # NoJob
    /\ i \in DOMAIN job.futures
    /\ job.futures[i].state = "submitted"
    /\ JobLockFree
    /\ Cardinality(InFlight) < job.max_workers
    /\ job' = [job EXCEPT !.current_file = i,
                          !.futures[i].state = "running"]
    /\ UNCHANGED batch_vars

\* the worker goes through _process_single_file on file i: it succeeds, or
\* it raises and the except branch returns the failed entry
ProcessSingleFile(i, raises, message) ==
    /\ job # NoJob
    /\ i \in DOMAIN job.futures
    /\ job.futures[i].state = "running"
    /\ job' = [job EXCEPT
                  !.futures[i] = [state |-> "done",
                                  raised |-> raises,
                                  result |-> IF raises THEN FailedResult(i, message)
                                                       ELSE SuccessResult(i)]]
    /\ UNCHANGED batch_vars

\* One turn of the as_completed loop (lines 127-136) holds job.lock over
\* three statements: the append, the count of the file, the count of the
\* failure.  Only the thread inside process_batch runs the loop.
AppendResult(i) ==
    /\ job # NoJob
    /\ i \in DOMAIN job.futures
    /\ job.futures[i].state = "done"
    /\ JobLockFree
    /\ job' = [job EXCEPT !.results = Append(@, job.futures[i].result),
                          !.futures[i].state = "appended"]
    /\ UNCHANGED batch_vars

CountProcessed(i) ==
    /\ job # NoJob
    /\ i \in DOMAIN job.futures
    /\ job.futures[i].state = "appended"
    /\ job' = [job EXCEPT !.processed_files = @ + 1,
                          !.futures[i].state = "counted"]
    /\ UNCHANGED batch_vars

CountFailed(i) ==
    /\ job # NoJob
    /\ i \in DOMAIN job.futures
    /\ job.futures[i].state = "counted"
    /\ job' = [job EXCEPT
                  !.failed_files = IF HasError(job.futures[i].result) THEN @ + 1 ELSE @,
                  !.futures[i].state = "collected"]
    /\ UNCHANGED batch_vars

\* the loop is over: lines 148-149 and the return of line 156
CompleteBatch ==
    /\ job # NoJob
    /\ job.at = "running"
    /\ \A i \in DOMAIN job.futures : job.futures[i].state = "collected"
    /\ job' = [job EXCEPT !.status = "COMPLETED", !.at = "idle"]
    /\ UNCHANGED batch_vars

\* the executor raises while the files are submitted (it cannot start a
\* thread): the outer except of lines 151-154
BatchRaises ==
    /\ job # NoJob
    /\ job.at = "running"
    /\ \A i \in DOMAIN job.futures : job.futures[i].state = "submitted"
    /\ job' = [job EXCEPT !.status = "FAILED", !.at = "idle", !.futures = <<>>]
    /\ UNCHANGED batch_vars

\* cancel_job
CancelJob ==
    /\ job # NoJob
    /\ job' = IF job.status = "PROCESSING"
                  THEN [job EXCEPT !.status = "CANCELLED"]
                  ELSE job
    /\ UNCHANGED batch_vars

\* the steps of create_batch_job and process_batch
BatchRun ==
    \/ \E n \in 1..MaxFiles, max_workers \in WorkerCounts : CreateBatchJob(n, max_workers)
    \/ ProcessBatch
    \/ \E i \in 1..MaxFiles :
          \/ PickUpFile(i)
          \/ ProcessSingleFile(i, FALSE, "")
          \/ \E message \in ErrorMessages : ProcessSingleFile(i, TRUE, message)
          \/ AppendResult(i)
          \/ CountProcessed(i)
          \/ CountFailed(i)
    \/ CompleteBatch
    \/ BatchRaises

NextBatch ==
    \/ BatchRun
    \/ CancelJob

SpecBatch == InitTracker /\ [][NextBatch]_vars

\* BatchJob.to_dict (job_id and the time stamps are left out; the
\* progress_percent processed_files / total_files * 100 is given as the pair
\* of its numerator and denominator)
to_dict(j) ==
    [total_files |-> j.total_files,
     processed_files |-> j.processed_files,
     failed_files |-> j.failed_files,
     status |-> j.status,
     progress_percent |-> IF j.total_files > 0
                             THEN <<j.processed_files * 100, j.total_files>>
                             ELSE <<0, 1>>,
     current_file |-> j.current_file,
     results |-> j.results]

\* get_job_status: it holds the processor's lock, not job.lock, so it is
\* enabled whatever the loop of process_batch is doing
GetJobStatus ==
    /\ job # NoJob
    /\ call' = [op |-> "get_job_status", ret |-> to_dict(job)]
    /\ UNCHANGED <<config, metrics, metrics_file, classify_vars, metrics_plain,
                   threads, audit_log, job>>

\* a batch job that nobody cancels, with a reader of its status
NextBatchStatus ==
    \/ BatchRun
    \/ GetJobStatus

SpecBatchStatus == InitTracker /\ [][NextBatchStatus]_vars

----------------------------------------------------------------------------
(* What the properties below read of a state *)

LastCall == oracle_calls[Len(oracle_calls)]

\* the calls of cascade pass p, in the order made
PassCalls(p) ==
    SelectSeq(oracle_calls, LAMBDA c : c \in {CallName(Checks[i], p) : i \in 1..3})

\* the result of cascade pass p, once it returned (result1 keeps the category,
\* confidence and reasoning of pass 1 when classify annotates it)
PassResult(p) == IF p = 1 THEN result1 ELSE result2

\* the last oracle call was `check` of pass p, and the dict the check
\* returned has its flag set
JustFlagged(check, p) ==
    /\ oracle_calls # <<>>
    /\ LastCall = CallName(check, p)
    /\ FlagKey(check) \in DOMAIN check_result
    /\ check_result[FlagKey(check)]

\* ContentSafetyValidator.validate has returned its result
ValidateReturned == ~IsNoDict(safety_result) /\ ~IsNoDict(safety_result.detail)

----------------------------------------------------------------------------
(* C1.  In a cascade pass, a flag of the unsafe check ends the pass with    *)
(* final_category UNSAFE and neither the confidential nor the sensitive     *)
(* check of that pass is ever called; a flag of the confidential check ends *)
(* it with CONFIDENTIAL and the sensitive check of that pass is never       *)
(* called.  (A flagging answer without confidence or reasoning is a         *)
(* KeyError: the pass then has no result.)                                  *)
C1_CascadeShortCircuit ==
    \A p \in {1, 2} :
        /\ JustFlagged("safety_check", p) /\ pc # "raised"
              => /\ ~IsNoDict(PassResult(p))
                 /\ PassResult(p).final_category = "UNSAFE"
        /\ JustFlagged("confidential_check", p) /\ pc # "raised"
              => /\ ~IsNoDict(PassResult(p))
                 /\ PassResult(p).final_category = "CONFIDENTIAL"
        /\ ~IsNoDict(PassResult(p)) /\ PassResult(p).final_category = "UNSAFE"
              => PassCalls(p) = <<CallName("safety_check", p)>>
        /\ ~IsNoDict(PassResult(p)) /\ PassResult(p).final_category = "CONFIDENTIAL"
              => PassCalls(p) = <<CallName("safety_check", p),
                                 CallName("confidential_check", p)>>

\* pass 1 ended by the unsafe flag, pass 2 by the confidential flag
C1_Witness ==
    /\ pc = "done"
    /\ ~IsNoDict(result2)
    /\ result1.final_category = "UNSAFE"
    /\ result2.final_category = "CONFIDENTIAL"
    /\ JustFlagged("confidential_check", 2)

(* C2.  Every result classify returns with final_category UNSAFE has        *)
(* hitl_status REQUIRES_REVIEW.                                             *)
C2_UnsafeRequiresReview ==
    pc = "done" /\ result.final_category = "UNSAFE"
        => result.hitl_status = "REQUIRES_REVIEW"

(* C3.  When validate reports is_safe false, classify calls the oracle for  *)
(* no cascade check, runs neither the calibration nor the HITL scoring and  *)
(* returns UNSAFE with confidence 1.0 and REQUIRES_REVIEW; a cascade pass   *)
(* only ever runs on a document validate reported safe.                     *)
C3_SafetyBypass ==
    /\ pc = "cascade" => safety_result.is_safe
    /\ pc = "done" /\ ~safety_result.is_safe
          => /\ oracle_calls = <<"ai_safety_check", "child_safety_check">>
             /\ IsNoDict(result1) /\ IsNoDict(result2)
             /\ result.final_category = "UNSAFE"
             /\ result.confidence_score = 10000
             /\ result.hitl_status = "REQUIRES_REVIEW"
             /\ "original_confidence" \notin DOMAIN result
             /\ "auto_approval_probability" \notin DOMAIN result

\* the bypass returned for a document that the tracker's state would let reach
\* the auto-approval threshold, had it been classified with consensus
C3_Witness ==
    /\ pc = "done"
    /\ ~safety_result.is_safe
    /\ \E c \in CATEGORIES, raw \in ConfValues :
          AutoApprovalScore(metrics, calibrate_confidence(metrics, raw, c, "True"),
                            c, "True", safety_result.safety_score) >= 75

\* the cascade check the last oracle call was made for
LastCheck ==
    CHOOSE check \in {Checks[i] : i \in 1..3} :
        LastCall \in {CallName(check, 1), CallName(check, 2)}

LastCallIsCascade ==
    /\ oracle_calls # <<>>
    /\ LastCall \in {CallName(Checks[i], p) : i \in 1..3, p \in {1, 2}}

(* C4.  A cascade check whose oracle call raised, returned unparsable text  *)
(* or returned an object without the flag or the confidence field comes     *)
(* back as a non-flagging CheckResult of confidence 0.5, and the pass does  *)
(* not raise.                                                               *)
C4_FailedCheckDegrades ==
    /\ LastCallIsCascade
    /\ \/ response \in {"raise", "text"}
       \/ ~HasKeys(check_result, {FlagKey(LastCheck), "confidence"})
    => /\ pc # "raised"
       /\ HasKeys(check_result, {FlagKey(LastCheck), "confidence"})
       /\ ~check_result[FlagKey(LastCheck)]
       /\ check_result.confidence = 5000

(* C5.  With dual validation, the base classifier runs two passes and sets  *)
(* validation_consensus true and hitl_status AUTO_APPROVED exactly when the *)
(* passes have the same final_category and both confidences are at or above *)
(* the threshold; otherwise validation_consensus false and REQUIRES_REVIEW. *)
C5_ConsensusRule ==
    pc = "done" /\ config.DUAL_VALIDATION_ENABLED /\ safety_result.is_safe
        => /\ ~IsNoDict(result2)
           /\ IF /\ result1.final_category = result2.final_category
                 /\ result1.confidence_score >= CONFIDENCE_THRESHOLD
                 /\ result2.confidence_score >= CONFIDENCE_THRESHOLD
                THEN /\ result1.validation_consensus = "True"
                     /\ result1.hitl_status = "AUTO_APPROVED"
                ELSE /\ result1.validation_consensus = "False"
                     /\ result1.hitl_status = "REQUIRES_REVIEW"

\* consensus with both confidences exactly at the threshold
C5_Witness ==
    /\ pc = "done"
    /\ ~IsNoDict(result2)
    /\ result1.validation_consensus = "True"
    /\ result1.confidence_score = CONFIDENCE_THRESHOLD
    /\ result2.confidence_score = CONFIDENCE_THRESHOLD

(* C6.  A pass whose sensitive check does not flag (so no check flagged)    *)
(* returns PUBLIC with confidence exactly 0.95 and the canned reasoning,    *)
(* having made the three check calls and no other; a check whose oracle     *)
(* call raised or returned unparsable text counts as not flagging, with     *)
(* confidence 0.5.                                                          *)
C6_PublicFallback ==
    /\ \A p \in {1, 2} :
          /\ /\ oracle_calls # <<>>
             /\ LastCall = CallName("sensitive_check", p)
             /\ "is_sensitive" \in DOMAIN check_result
             /\ ~check_result.is_sensitive
             => /\ ~IsNoDict(PassResult(p))
                /\ PassResult(p).final_category = "PUBLIC"
          /\ ~IsNoDict(PassResult(p)) /\ PassResult(p).final_category = "PUBLIC"
             => /\ PassResult(p).confidence_score = 9500
                /\ PassResult(p).reasoning_summary = PublicReasoning
                /\ PassCalls(p) = [i \in 1..3 |-> CallName(Checks[i], p)]
    /\ LastCallIsCascade /\ response \in {"raise", "text"}
          => /\ pc # "raised"
             /\ ~check_result[FlagKey(LastCheck)]
             /\ check_result.confidence = 5000

\* pass 1 returned PUBLIC after its sensitive check's oracle call raised
C6_Witness ==
    /\ pc = "cascade"
    /\ pass = 2
    /\ LastCall = CallName("sensitive_check", 1)
    /\ response = "raise"
    /\ result1.final_category = "PUBLIC"
    /\ result1.confidence_score = 9500

(* C7.  Every result a cascade pass, the base classifier or classify        *)
(* returns has final_category among the four categories and                 *)
(* confidence_score in [0, 1].                                              *)
ResultInRange(r) ==
    IsNoDict(r) \/ /\ r.final_category \in CATEGORIES
                   /\ r.confidence_score >= 0
                   /\ r.confidence_score <= 10000

C7_ResultsInRange ==
    /\ ResultInRange(result1)
    /\ ResultInRange(result2)
    /\ ResultInRange(result)

(* C8.  When validate returns, both oracle layers have been called after    *)
(* the pattern layer, whatever the earlier layers found, and is_safe is     *)
(* false exactly when a pattern matched, the deep check answered is_safe    *)
(* false or the child-safety check answered is_child_safe false.            *)
C8_AllLayersUnioned ==
    ValidateReturned
        => /\ SubSeq(oracle_calls, 1, 2) = <<"ai_safety_check", "child_safety_check">>
           /\ safety_result.is_safe =
                 ~(\/ doc.matched # {}
                   \/ ~safety_result.detail.ai_check.is_safe
                   \/ ~safety_result.detail.child_safety_check.is_child_safe)

\* a pattern matched, and both oracle layers were still called and found
\* nothing
C8_Witness ==
    /\ ValidateReturned
    /\ doc.matched # {}
    /\ safety_result.detail.ai_check.is_safe
    /\ safety_result.detail.child_safety_check.is_child_safe
    /\ ~safety_result.is_safe

(* C9.  After the oracle call of the deep check or of the child-safety      *)
(* check failed (it raised, returned unparsable text, or an object without  *)
(* a field the layer reports), validate does not raise and its result has   *)
(* is_safe false; after a child-safety failure also child_safe false.       *)
C9_OracleFailureFailsClosed ==
    /\ oracle_calls # <<>>
    /\ \/ /\ LastCall = "ai_safety_check"
          /\ \/ response \in {"raise", "text"}
             \/ ~HasKeys(check_result,
                         {"is_safe", "safety_score", "violations", "categories"})
       \/ /\ LastCall = "child_safety_check"
          /\ \/ response \in {"raise", "text"}
             \/ ~HasKeys(check_result, {"is_child_safe", "reason"})
    => /\ pc # "raised"
       /\ ~safety_result.is_safe
       /\ LastCall = "child_safety_check" => ~safety_result.child_safe

(* C10.  The safety_score validate returns is the minimum of the scores the *)
(* layers reported: the deep check is the one layer that reports a score,   *)
(* so it is the deep check's safety_score whenever it reported one.         *)
C10_SafetyScoreIsMinimum ==
    ValidateReturned /\ "safety_score" \in DOMAIN safety_result.detail.ai_check
        => safety_result.safety_score = safety_result.detail.ai_check.safety_score

----------------------------------------------------------------------------
\* the precision the tracker stores for a category, 0.0 when it has none
StoredPrecision(m, category) ==
    IF category \in DOMAIN m.category_stats
        THEN m.category_stats[category].precision ELSE 0

\* round4(clamp01(raw * (0.7 + 0.3 * precision) * (1.1 if consensus else 1))),
\* in 1/10000: raw * (70000 + 3 * precision) counts 10^-9
Round4Clamp01(raw, precision, consensus) ==
    LET product == raw * (70000 + 3 * precision)
        whole == product \div 1000000
        rest == product % 1000000
    IN  IF product <= 0 THEN 0
        ELSE IF consensus
            THEN IF 11 * whole >= 10000 THEN 10000
                 ELSE Min(10000, 11 * whole + RoundDiv(11 * rest, 1000000))
        ELSE IF whole >= 1000 THEN 10000
        ELSE RoundDiv(product, 100000)

(* C11.  _calibrate_confidence returns                                      *)
(* round4(clamp01(raw * (0.7 + 0.3 * precision) * (1.1 if has_consensus     *)
(* else 1))), precision being the tracker's stored precision of the         *)
(* category and 0.0 when the tracker has no data for it: raw * 0.7 on an    *)
(* empty tracker without consensus.                                         *)
C11_CalibrationFormula ==
    call.op = "_calibrate_confidence"
        => call.ret = Round4Clamp01(call.raw_confidence,
                                    StoredPrecision(metrics, call.category),
                                    call.has_consensus = "True")

(* C12.  _enhanced_hitl_decision returns auto_approval_probability          *)
(* c + k + p + s, with c = 0.40 / 0.30 / 0.20 / 0 for confidence >= 0.95 /  *)
(* >= 0.90 / >= 0.85 / below, k = 0.30 for consensus true, p = 0.20 / 0.15  *)
(* / 0 for category precision >= 0.95 / >= 0.90 / below and s = 0.10 for    *)
(* safety_score >= 0.95, and status AUTO_APPROVED exactly when that sum is  *)
(* at least 0.75, REQUIRES_REVIEW otherwise.                                *)
C12_HitlScore ==
    call.op = "_enhanced_hitl_decision"
        => LET precision == StoredPrecision(metrics, call.final_category)
               c == CASE call.confidence_score >= 9500 -> 40
                      [] call.confidence_score \in 9000..9499 -> 30
                      [] call.confidence_score \in 8500..8999 -> 20
                      [] OTHER -> 0
               k == IF call.validation_consensus = "True" THEN 30 ELSE 0
               p == CASE precision >= 9500 -> 20
                      [] precision \in 9000..9499 -> 15
                      [] OTHER -> 0
               s == IF call.safety_score >= 9500 THEN 10 ELSE 0
           IN  /\ call.ret.auto_approval_probability = c + k + p + s
               /\ call.ret.status = IF c + k + p + s >= 75 THEN "AUTO_APPROVED"
                                                           ELSE "REQUIRES_REVIEW"

\* a decision whose score is exactly 0.75: confidence 0.90, consensus and
\* precision 0.90, with a safety score below 0.95
C12_Witness ==
    /\ call.op = "_enhanced_hitl_decision"
    /\ call.confidence_score = 9000
    /\ call.validation_consensus = "True"
    /\ StoredPrecision(metrics, call.final_category) = 9000
    /\ call.safety_score = 9499
    /\ call.ret.auto_approval_probability = 75
    /\ call.ret.status = "AUTO_APPROVED"

----------------------------------------------------------------------------
\* the counters the tracker holds for a category, and a confusion-matrix cell
\* (a missing entry counts as zero)
Stats(m, category) == GetOr(m.category_stats, category, ZeroStats)
Cell(m, truth, predicted) ==
    GetOr(GetOr(m.confusion_matrix, truth, NoDict), predicted, 0)

\* every label that is a row or a column of the confusion matrix
Labels(m) ==
    CATEGORIES \cup DOMAIN m.confusion_matrix
        \cup UNION {DOMAIN m.confusion_matrix[g] : g \in DOMAIN m.confusion_matrix}

RECURSIVE SumCells(_, _, _)
SumCells(m, cells, acc) ==
    IF cells = {} THEN acc
    ELSE LET x == CHOOSE y \in cells : TRUE
         IN  SumCells(m, cells \ {x}, acc + Cell(m, x[1], x[2]))

\* the step is a call of `op` on the tracker
TrackerStep(op) == metrics' # metrics /\ call'.op = op

C15_CountersMatchConfusionMatrix ==
    \A c \in CATEGORIES :
        /\ Stats(metrics, c).true_positives = Cell(metrics, c, c)
        /\ Stats(metrics, c).false_positives
             = SumCells(metrics, {<<g, c>> : g \in Labels(metrics) \ {c}}, 0)
        /\ Stats(metrics, c).false_negatives
             = SumCells(metrics, {<<c, q>> : q \in Labels(metrics) \ {c}}, 0)

\* PUBLIC was predicted once rightly and once for an UNSAFE document, the
\* second time through a HITL correction
C15_Witness ==
    /\ call.op = "record_hitl_correction"
    /\ call.original = "PUBLIC"
    /\ call.corrected = "UNSAFE"
    /\ Cell(metrics, "PUBLIC", "PUBLIC") = 1
    /\ Cell(metrics, "UNSAFE", "PUBLIC") = 1
    /\ Stats(metrics, "PUBLIC").false_positives = 1
    /\ Stats(metrics, "UNSAFE").false_negatives = 1

C13_SubmissionRecordsCorrection ==
    call.op = "submit_hitl_review" /\ call.status = 200
        => /\ \E i \in DOMAIN metrics.hitl_corrections :
                 /\ metrics.hitl_corrections[i].document_id = call.document_id
                 /\ metrics.hitl_corrections[i].corrected = call.corrected_category
           /\ metrics.total_ground_truth >= 1

(* C17.  The tracker round-trips through its file: loading the file gives   *)
(* the metrics the tracker held, and every record_prediction and            *)
(* record_hitl_correction call on a loaded tracker ends in the state the    *)
(* same call gives on a tracker that was never reloaded, saved to the file. *)
C17_RoundTrip ==
    /\ [][call'.op = "_load_metrics" => metrics' = metrics]_vars
    /\ [][TrackerStep("record_prediction")
            => /\ metrics' = record_prediction(metrics, call'.predicted,
                                               call'.ground_truth, call'.confidence,
                                               call'.document_id)
               /\ metrics_file' = SavedMetrics(metrics')]_vars
    /\ [][TrackerStep("record_hitl_correction")
            => /\ metrics' = record_hitl_correction(metrics, call'.document_id,
                                                    call'.original, call'.corrected,
                                                    call'.confidence)
               /\ metrics_file' = SavedMetrics(metrics')]_vars

\* the metrics after the calls of the threads, made one after the other in
\* the order `order` from its position i on
RECURSIVE Serial(_, _, _)
Serial(m, order, i) ==
    IF i > Len(order) THEN m
    ELSE LET t == threads[order[i]]
         IN  Serial(record_prediction(m, t.predicted, t.ground_truth, t.confidence,
                                      t.document_id),
                    order, i + 1)

AllReturned ==
    /\ threads # NoThreads
    /\ \A t \in DOMAIN threads : threads[t].at = "returned"

(* C18.  Concurrent record_prediction calls on one tracker are serialized:  *)
(* once every call has returned, the metrics in memory and the metrics in   *)
(* the file are those of the same calls made one after the other in some    *)
(* order, so no increment is lost and no write of the file is stale.        *)
C18_Serialized ==
    AllReturned =>
        \E order \in Permutations(DOMAIN threads) :
            /\ metrics = Serial(EmptyMetrics, order, 1)
            /\ metrics_file = SavedMetrics(metrics)

(* C19.  A batch job's status changes only along QUEUED -> PROCESSING ->    *)
(* (COMPLETED | FAILED | CANCELLED), and CANCELLED is only set by           *)
(* cancel_job: a cancelled or finished job keeps its status.                *)
C19_StatusStateMachine ==
    [][job'.status # job.status
          => <<job.status, job'.status>> \in {<<None, "QUEUED">>,
                                              <<"QUEUED", "PROCESSING">>,
                                              <<"PROCESSING", "COMPLETED">>,
                                              <<"PROCESSING", "FAILED">>,
                                              <<"PROCESSING", "CANCELLED">>}]_vars

\* the first process_batch call of the job has returned from line 156
FirstRunReturned ==
    /\ job # NoJob
    /\ job.at = "idle"
    /\ job.runs = 1
    /\ job.futures # <<>>

\* the files whose processing raised
FailedFiles == {i \in DOMAIN job.futures : job.futures[i].raised}

(* C20.  When process_batch returns from a batch of N files of which the    *)
(* files of F raised, the job is COMPLETED with processed_files = N,        *)
(* failed_files = |F| and one result per file, a failed entry for each file *)
(* of F.                                                                    *)
C20_PerFileFailures ==
    FirstRunReturned =>
        /\ job.status = "COMPLETED"
        /\ job.processed_files = job.total_files
        /\ job.failed_files = Cardinality(FailedFiles)
        /\ Len(job.results) = job.total_files
        /\ \A i \in 1..job.total_files :
              /\ Cardinality({k \in DOMAIN job.results : job.results[k].file = i}) = 1
              /\ \A k \in DOMAIN job.results :
                    job.results[k].file = i =>
                        (job.results[k].status = "FAILED" <=> i \in FailedFiles)

(* C21.  After cancel_job has set a PROCESSING job to CANCELLED, no file of *)
(* the job that no worker has picked up yet starts processing: a file       *)
(* still waiting in the executor stays there.                               *)
C21_CancelStopsPickUp ==
    [][job.status = "CANCELLED"
          => \A i \in DOMAIN job.futures \cap DOMAIN job'.futures :
                ~(/\ job.futures[i].state = "submitted"
                  /\ job'.futures[i].state = "running")]_vars

(* C22.  With dual validation disabled, GeminiClassifier.classify runs one  *)
(* cascade pass and no second one, sets validation_consensus to None, and   *)
(* sets hitl_status to AUTO_APPROVED when the confidence of that pass is at *)
(* or above the threshold and to REQUIRES_REVIEW otherwise.                 *)
C22_SinglePass ==
    pc = "done" /\ ~config.DUAL_VALIDATION_ENABLED /\ ~IsNoDict(result1)
        => /\ pass = 1
           /\ PassCalls(1) # <<>>
           /\ Len(PassCalls(1)) <= 3
           /\ PassCalls(2) = <<>>
           /\ IsNoDict(result2)
           /\ result1.validation_consensus = None
           /\ result1.hitl_status =
                  IF result1.confidence_score >= CONFIDENCE_THRESHOLD
                      THEN "AUTO_APPROVED" ELSE "REQUIRES_REVIEW"

\* a single pass whose confidence is exactly the threshold
C22_Witness ==
    /\ pc = "done"
    /\ ~config.DUAL_VALIDATION_ENABLED
    /\ ~IsNoDict(result1)
    /\ result1.confidence_score = CONFIDENCE_THRESHOLD
    /\ result1.hitl_status = "AUTO_APPROVED"

\* precision, recall and F1 of the counts tp, fp, fn in 1/10000, each 0 when
\* its denominator is 0; 2PR/(P+R) for P = tp/(tp+fp) and R = tp/(tp+fn) is
\* 2 tp tp / (tp (tp+fn) + tp (tp+fp))
PrecisionOf(tp, fp) == IF tp + fp = 0 THEN 0 ELSE RoundDiv(tp * 10000, tp + fp)
RecallOf(tp, fn) == IF tp + fn = 0 THEN 0 ELSE RoundDiv(tp * 10000, tp + fn)
F1Of(tp, fp, fn) ==
    IF tp = 0 THEN 0
    ELSE RoundDiv(2 * tp * tp * 10000, tp * (tp + fn) + tp * (tp + fp))

(* C23.  In every state of the tracker, reloaded or not and also after a    *)
(* call that raised, the stored precision, recall and f1_score of every     *)
(* category are the values computed from the category's TP, FP and FN       *)
(* counts.                                                                  *)
C23_StoredMetricsFollowCounts ==
    \A c \in CATEGORIES :
        LET stats == Stats(metrics, c)
        IN  /\ stats.precision = PrecisionOf(stats.true_positives, stats.false_positives)
            /\ stats.recall = RecallOf(stats.true_positives, stats.false_negatives)
            /\ stats.f1_score = F1Of(stats.true_positives, stats.false_positives,
                                     stats.false_negatives)

\* a ground-truthed call on a reloaded tracker has counted a second hit
C23_Witness ==
    /\ metrics_plain
    /\ call.op = "record_prediction"
    /\ \E c \in CATEGORIES :
          /\ c \in DOMAIN metrics.category_stats
          /\ metrics.category_stats[c].true_positives = 2
          /\ metrics.category_stats[c].precision = 10000

\* |bin midpoint - correct / total| in 1/10000, rounded to 4 decimals, for
\* the bin key `bin` in tenths
MidpointError(bin, correct, total) ==
    LET scaled == (bin * 1000 + 500) * total - correct * 10000
    IN  RoundDiv(IF scaled >= 0 THEN scaled ELSE 0 - scaled, total)

(* C25.  The calibration report gives, for every confidence bin that has    *)
(* entries, the share of correct entries as the actual accuracy and the     *)
(* distance between the bin's midpoint (bin key + 0.05) and that accuracy   *)
(* as the calibration error.                                                *)
C25_CalibrationReport ==
    call.op = "get_confidence_calibration"
        => \A bin \in DOMAIN metrics.confidence_bins :
              LET predictions == metrics.confidence_bins[bin]
                  correct == CorrectIn(predictions)
              IN  Len(predictions) > 0
                      => /\ bin \in DOMAIN call.ret
                         /\ call.ret[bin].actual
                                = RoundDiv(correct * 10000, Len(predictions))
                         /\ call.ret[bin].calibration_error
                                = MidpointError(bin, correct, Len(predictions))

\* the step is a call of one of the tracker's operations
TrackerOperation ==
    call'.op \in {"record_prediction", "record_hitl_correction",
                  "get_confidence_calibration", "get_detailed_report",
                  "export_report"}

(* C24.  No operation of the tracker (record_prediction,                    *)
(* record_hitl_correction, the reports, export_report) decreases a cell of  *)
(* the confusion matrix or a TP / FP / FN count of a category, and each     *)
(* leaves the entries of the HITL correction log in place, adding only at   *)
(* its end.                                                                 *)
C24_CountsAndLogOnlyGrow ==
    [][TrackerOperation
          => /\ \A g \in Labels(metrics), p \in Labels(metrics) :
                   Cell(metrics', g, p) >= Cell(metrics, g, p)
             /\ \A c \in CATEGORIES :
                   /\ Stats(metrics', c).true_positives
                          >= Stats(metrics, c).true_positives
                   /\ Stats(metrics', c).false_positives
                          >= Stats(metrics, c).false_positives
                   /\ Stats(metrics', c).false_negatives
                          >= Stats(metrics, c).false_negatives
             /\ Len(metrics'.hitl_corrections) >= Len(metrics.hitl_corrections)
             /\ SubSeq(metrics'.hitl_corrections, 1, Len(metrics.hitl_corrections))
                   = metrics.hitl_corrections]_vars

\* a second correction has been logged and counted
C24_Witness ==
    /\ call.op = "record_hitl_correction"
    /\ Len(metrics.hitl_corrections) = 2
    /\ Cell(metrics, "UNSAFE", "PUBLIC") = 2

(* C26.  EnhancedGeminiClassifier.classify returns AUTO_APPROVED only when  *)
(* two cascade passes ran and reached consensus (same category, both        *)
(* confidences at or above the threshold): without consensus the status is  *)
(* REQUIRES_REVIEW whatever the confidence, the category's precision and    *)
(* the safety score.                                                        *)
C26_AutoApprovalNeedsConsensus ==
    pc = "done" /\ result.hitl_status = "AUTO_APPROVED"
        => /\ config.DUAL_VALIDATION_ENABLED
           /\ ~IsNoDict(result2)
           /\ result.validation_consensus = "True"
           /\ result1.final_category = result2.final_category
           /\ result1.confidence_score >= CONFIDENCE_THRESHOLD
           /\ result2.confidence_score >= CONFIDENCE_THRESHOLD

\* no consensus and every other factor of the score at its highest
C26_Witness ==
    /\ pc = "done"
    /\ result.validation_consensus # "True"
    /\ result.auto_approval_probability = 70
    /\ result.hitl_status = "REQUIRES_REVIEW"

(* C27.  A classify call that starts on a tracker without ground-truthed    *)
(* data never returns AUTO_APPROVED, whatever the oracle answers.           *)
C27_NoAutoApprovalWithoutData ==
    [][metrics.total_ground_truth = 0 /\ pc # "done" /\ pc' = "done"
          => result'.hitl_status # "AUTO_APPROVED"]_vars

(* C28.  Whenever job.lock is free, a batch job has                         *)
(* failed_files <= processed_files <= total_files and as many results as    *)
(* processed files, also when process_batch is called again for the job.    *)
C28_JobCounters ==
    job # NoJob /\ JobLockFree
        => /\ job.failed_files <= job.processed_files
           /\ job.processed_files <= job.total_files
           /\ Len(job.results) = job.processed_files

(* C29.  A snapshot get_job_status returns is of one moment of the job: it  *)
(* has as many results as processed_files and as many failed entries among  *)
(* them as failed_files.                                                    *)
C29_ConsistentSnapshot ==
    call.op = "get_job_status"
        => /\ Len(call.ret.results) = call.ret.processed_files
           /\ Cardinality({k \in DOMAIN call.ret.results :
                               call.ret.results[k].status = "FAILED"})
                 = call.ret.failed_files

(* C30.  A result of EnhancedGeminiClassifier.classify carries              *)
(* validation_consensus true only if two cascade passes ran for the         *)
(* document and agreed: same category, both confidences at or above the     *)
(* threshold.                                                               *)
C30_ConsensusMeansTwoPasses ==
    pc = "done" /\ result.validation_consensus = "True"
        => /\ PassCalls(1) # <<>>
           /\ PassCalls(2) # <<>>
           /\ ~IsNoDict(result1)
           /\ ~IsNoDict(result2)
           /\ result1.final_category = result2.final_category
           /\ result1.confidence_score >= CONFIDENCE_THRESHOLD
           /\ result2.confidence_score >= CONFIDENCE_THRESHOLD

====
